---- MODULE Spec2Model ----
(***************************************************************************)
(* Model of pkg/security/probe/probe_bpf.go: the runtime security probe.   *)
(* The probe decodes the buffers the kernel perf maps deliver (handleEvent *)
(* and handleLostEvents), keeps the mount cache and the event counters up  *)
(* to date, hands the decoded event to the registered handler, and pushes  *)
(* discarders and approvers to the kernel for the rule engine.             *)
(*                                                                         *)
(* handleEvent is modelled statement by statement, one position (pc) per   *)
(* callback, because the callbacks of different CPUs all work on the one   *)
(* Event container p.event.  Spec delivers the buffers one at a time,      *)
(* SpecConc lets the callbacks of different CPUs interleave, and SpecRules *)
(* is the rule engine's side (Init, OnNewDiscarder, ApplyApprovers).       *)
(***************************************************************************)
EXTENDS Integers, Sequences, FiniteSets, TLC

\* ------------------------------------------------------------------------
\* Bounds of the model
\* ------------------------------------------------------------------------
\* calls of the probe's operations in one behaviour
MaxCalls == 2
\* calls of Probe.Init in one behaviour
MaxInit == 2
\* mount ids (and payload bytes) range over 1..MaxMountID
MaxMountID == 2
\* CPUs with a perf ring buffer each
NCPU == 2
\* width of the model's machine word: Go's int64/uint64 scaled to this many bits
CounterBits == 4

CPUs == 0 .. (NCPU - 1)
MountIDs == 1 .. MaxMountID

\* ------------------------------------------------------------------------
\* Event types (the EventType ordinals index EventsStats.PerEventType)
\* ------------------------------------------------------------------------
UnknownEventType == 0
FileOpenEventType == 1
FileMkdirEventType == 2
FileLinkEventType == 3
FileRenameEventType == 4
FileUnlinkEventType == 5
FileRmdirEventType == 6
FileChmodEventType == 7
FileChownEventType == 8
FileUtimeEventType == 9
FileMountEventType == 10
FileUmountEventType == 11
FileSetXAttrEventType == 12
FileRemoveXAttrEventType == 13
\* one past the last event type: the length of EventsStats.PerEventType
maxEventType == 14

\* the tags the switch of handleEvent has a case for
SupportedTypes ==
    { FileOpenEventType, FileMkdirEventType, FileRmdirEventType,
      FileUnlinkEventType, FileRenameEventType, FileChmodEventType,
      FileChownEventType, FileUtimeEventType, FileLinkEventType,
      FileMountEventType, FileUmountEventType, FileSetXAttrEventType,
      FileRemoveXAttrEventType }

\* the field of Event each case of the switch decodes the payload into
Variant(t) ==
    CASE t = FileOpenEventType -> "Open"
      [] t = FileMkdirEventType -> "Mkdir"
      [] t = FileRmdirEventType -> "Rmdir"
      [] t = FileUnlinkEventType -> "Unlink"
      [] t = FileRenameEventType -> "Rename"
      [] t = FileChmodEventType -> "Chmod"
      [] t = FileChownEventType -> "Chown"
      [] t = FileUtimeEventType -> "Utimes"
      [] t = FileLinkEventType -> "Link"
      [] t = FileMountEventType -> "Mount"
      [] t = FileUmountEventType -> "Umount"
      [] t = FileSetXAttrEventType -> "SetXAttr"
      [] t = FileRemoveXAttrEventType -> "RemoveXAttr"

\* EventType.String(): the name used in rules, metrics tags and GetStats
EventTypeString(t) ==
    CASE t = FileOpenEventType -> "open"
      [] t = FileMkdirEventType -> "mkdir"
      [] t = FileRmdirEventType -> "rmdir"
      [] t = FileUnlinkEventType -> "unlink"
      [] t = FileRenameEventType -> "rename"
      [] t = FileChmodEventType -> "chmod"
      [] t = FileChownEventType -> "chown"
      [] t = FileUtimeEventType -> "utimes"
      [] t = FileLinkEventType -> "link"
      [] t = FileMountEventType -> "mount"
      [] t = FileUmountEventType -> "umount"
      [] t = FileSetXAttrEventType -> "setxattr"
      [] t = FileRemoveXAttrEventType -> "removexattr"
      [] OTHER -> "unknown"

EventTypeNames == { EventTypeString(t) : t \in SupportedTypes }

\* ------------------------------------------------------------------------
\* Machine integers
\* ------------------------------------------------------------------------
RECURSIVE Pow2(_)
Pow2(n) == IF n = 0 THEN 1 ELSE 2 * Pow2(n - 1)

WordModulus == Pow2(CounterBits)
MaxInt64 == Pow2(CounterBits - 1) - 1
MinInt64 == 0 - Pow2(CounterBits - 1)
MaxUint64 == WordModulus - 1

\* the value of a mathematical integer stored in an int64 (two's complement)
WrapInt64(n) ==
    LET m == n % WordModulus
    IN  IF m > MaxInt64 THEN m - WordModulus ELSE m

\* Go's conversion int64(count) of a uint64
Int64OfUint64(u) == WrapInt64(u)

\* ------------------------------------------------------------------------
\* The Event container and its decoders
\* ------------------------------------------------------------------------
NoResolvers == "nil"
ProbeResolvers == "p.resolvers"

MountEventZero == [MountID |-> 0, MountPointStr |-> "", RootStr |-> ""]
UmountEventZero == [MountID |-> 0]

\* var eventZero Event: every field at its zero value
eventZero ==
    [ Type |-> 0,
      Open |-> 0, Mkdir |-> 0, Rmdir |-> 0, Unlink |-> 0, Rename |-> 0,
      Chmod |-> 0, Chown |-> 0, Utimes |-> 0, Link |-> 0,
      Mount |-> MountEventZero, Umount |-> UmountEventZero,
      SetXAttr |-> 0, RemoveXAttr |-> 0,
      resolvers |-> NoResolvers ]

\* NewEvent(resolvers)
NewEvent(r) == [eventZero EXCEPT !.resolvers = r]

\* bytes of the common header: the event-type tag
HeaderSize == 1
\* bytes every variant's payload needs
PayloadSize == 1

NoError == "nil"
ErrNotEnoughData == "not enough data"

\* Event.UnmarshalBinary: the common header
EventUnmarshalBinary(data) ==
    IF Len(data) < HeaderSize
    THEN [err |-> ErrNotEnoughData, read |-> 0, Type |-> 0]
    ELSE [err |-> NoError, read |-> HeaderSize, Type |-> data[1]]

\* <Variant>Event.UnmarshalBinary: the payload of the variant of tag t
PayloadUnmarshalBinary(t, data) ==
    IF Len(data) < PayloadSize
    THEN [err |-> ErrNotEnoughData, val |-> 0]
    ELSE [err |-> NoError,
          val |-> CASE t = FileMountEventType ->
                         [MountEventZero EXCEPT !.MountID = data[1]]
                    [] t = FileUmountEventType -> [MountID |-> data[1]]
                    [] OTHER -> data[1]]

\* data[offset:]
SliceFrom(data, off) == SubSeq(data, off + 1, Len(data))

\* the buffers the kernel delivers: nothing, a tag, or a tag and a payload byte
Tags == 0 .. maxEventType
Buffers ==
    {<<>>} \cup { <<t>> : t \in Tags } \cup
    { <<t, b>> : t \in Tags, b \in MountIDs }

\* ------------------------------------------------------------------------
\* The mount resolver and the statistics
\* ------------------------------------------------------------------------
ErrMountNotFound == "mount not found"

\* MountResolver.Insert: upsert keyed by the mount id
MountInsert(m, e) ==
    [id \in (DOMAIN m) \cup {e.MountID} |-> IF id = e.MountID THEN e ELSE m[id]]

\* MountResolver.Delete: removes the entry, or reports that there is none
MountDelete(m, mountID) ==
    IF mountID \in DOMAIN m
    THEN [err |-> NoError, mounts |-> [id \in (DOMAIN m) \ {mountID} |-> m[id]]]
    ELSE [err |-> ErrMountNotFound, mounts |-> m]

\* MountEvent.ResolveMountPoint / ResolveRoot fill the two path fields
ResolveMountPoint(mount) == [mount EXCEPT !.MountPointStr = "/point"]
ResolveRoot(mount) == [mount EXCEPT !.RootStr = "/root"]

EventsStatsZero == [Lost |-> 0, PerEventType |-> [t \in 0 .. (maxEventType - 1) |-> 0]]

\* EventsStats.CountLost: atomic.AddInt64(&e.Lost, count)
CountLost(stats, count) == [stats EXCEPT !.Lost = WrapInt64(@ + count)]

\* EventsStats.CountEventType: atomic.AddInt64(&e.PerEventType[eventType], count)
CountEventType(stats, t, count) ==
    [stats EXCEPT !.PerEventType[t] = WrapInt64(@ + count)]

\* ------------------------------------------------------------------------
\* The rule engine's side: fields, discarder and approver functions
\* ------------------------------------------------------------------------
ErrFieldNotFound == "field not found"
ErrDiscarder == "discarder function failed"
ErrApprover == "approver function failed"

\* the fields the rule engine names: three of the model's, one that is none
Fields == {"open.filename", "unlink.filename", "mkdir.filename", "no.such.field"}

\* Event.GetFieldEventType: the event type a field belongs to
GetFieldEventType(field) ==
    CASE field = "open.filename" -> [err |-> NoError, eventType |-> "open"]
      [] field = "unlink.filename" -> [err |-> NoError, eventType |-> "unlink"]
      [] field = "mkdir.filename" -> [err |-> NoError, eventType |-> "mkdir"]
      [] OTHER -> [err |-> ErrFieldNotFound, eventType |-> ""]

\* Event.GetFieldValue: the value of a field of the event
GetFieldValue(ev, field) ==
    CASE field = "open.filename" -> [err |-> NoError, value |-> ev.Open]
      [] field = "unlink.filename" -> [err |-> NoError, value |-> ev.Unlink]
      [] field = "mkdir.filename" -> [err |-> NoError, value |-> ev.Mkdir]
      [] OTHER -> [err |-> ErrFieldNotFound, value |-> 0]

\* func init(): the package-level registries
allApproversFncs == [t \in {"open"} |-> "openOnNewApprovers"]
allDiscarderFncs ==
    [t \in {"open", "unlink"} |->
        IF t = "open" THEN "openOnNewDiscarder" ELSE "unlinkOnNewDiscarder"]

\* the kernel maps the discarder and approver functions write
TableNames == {"open_basename_approvers", "open_discarders", "unlink_discarders"}

DiscarderTable(fnc) ==
    IF fnc = "openOnNewDiscarder" THEN "open_discarders" ELSE "unlink_discarders"

\* a discarder function that succeeds marks the value in its kernel map
DiscarderFncWrite(tbls, fnc, discarder) ==
    [tbls EXCEPT ![DiscarderTable(fnc)] = @ \cup {discarder.Value}]

\* openOnNewApprovers, when it succeeds, installs the approvers in its kernel map
ApproverFncWrite(tbls, approvers) ==
    [tbls EXCEPT !["open_basename_approvers"] = @ \cup approvers]

\* the approvers the rule engine compiles
ApproverSets == {{}, {"basename"}}

\* ------------------------------------------------------------------------
\* The manager, the policy tables and the metrics
\* ------------------------------------------------------------------------
NoManager == "nil"
ManagerCreated == "created"
ManagerInitialised == "initialised"

NoSyscallMonitor == "nil"
TheSyscallMonitor == "syscallMonitor"

\* PolicyMode
PolicyModeNoFilter == 0
PolicyModeAccept == 1
PolicyModeDeny == 2
PolicyModes == {PolicyModeNoFilter, PolicyModeAccept, PolicyModeDeny}
\* PolicyFlag
PolicyFlags == {0, 1}

\* the policy tables of the loaded programs, and a name that is none of them
PolicyTableNames == {"open_policy", "unlink_policy"}
RequestedTableNames == PolicyTableNames \cup {"no_such_policy"}

\* the sentinel slot of a policy table nobody has written
FilterPolicyZero == [Mode |-> 0, Flags |-> 0]

ErrTableNotFound == "unable to find policy table"
ErrPut == "map put failed"
ErrStatsd == "statsd count failed"
ErrSyscallMonitor == "syscall monitor failed"
ErrInitManager == "init manager failed"

\* ------------------------------------------------------------------------
\* State
\* ------------------------------------------------------------------------
VARIABLES
    config,            \* p.config
    handler,           \* p.handler
    eventsStats,       \* p.eventsStats
    mounts,            \* p.resolvers.MountResolver: mount id -> entry
    event,             \* *p.event: the one Event container of the probe
    onDiscardersFncs,  \* p.onDiscardersFncs: event type -> list of functions
    managerOptions,    \* p.managerOptions.ActivatedProbes
    tables,            \* the kernel maps: name -> the values put in it
    manager,           \* p.manager: nil, created, or initialised (maps loaded)
    syscallMonitor,    \* p.syscallMonitor: nil or set
    startTime,         \* p.startTime
    kernelVersion,     \* p.kernelVersion
    policyTables,      \* the kernel's policy tables: name -> the sentinel slot
    pc,                \* per CPU: the position of its handleEvent callback
    data,              \* per CPU: the buffer of the callback
    offset,            \* per CPU: local offset
    eventType,         \* per CPU: local eventType
    handled,           \* the calls of handler.HandleEvent, in order
    call,              \* the last call of an operation: arguments and outcome
    ncalls,            \* calls made so far
    ninit              \* calls of Probe.Init so far

\* what InitManager sets up, and the policy tables of the loaded programs
managerVars == << manager, syscallMonitor, startTime, kernelVersion,
                  policyTables >>
\* the probe and the kernel maps
probeVars == << config, handler, eventsStats, mounts, event, onDiscardersFncs,
                managerOptions, tables, managerVars >>
\* what the rule engine's side works on
ruleVars == << config, onDiscardersFncs, managerOptions, tables, ninit,
               managerVars >>
\* the locals of the callbacks
localVars == << pc, data, offset, eventType >>

vars == << config, handler, eventsStats, mounts, event, onDiscardersFncs,
           managerOptions, tables, manager, syscallMonitor, startTime,
           kernelVersion, policyTables, pc, data, offset, eventType, handled,
           call, ncalls, ninit >>

NoHandler == "nil"
Handlers == {NoHandler, "ruleEngine"}

NoCall == [op |-> "none", arg |-> <<>>, pre |-> <<>>, ret |-> NoError,
           errBy |-> 0, invoked |-> <<>>, done |-> TRUE, out |-> <<>>]

\* what a call found when it started
Snapshot == [eventsStats |-> eventsStats, mounts |-> mounts,
             nhandled |-> Len(handled)]

\* the record of a call that ran to its end in one step
Called(op, arg, ret, errBy, invoked) ==
    [op |-> op, arg |-> arg, pre |-> Snapshot, ret |-> ret, errBy |-> errBy,
     invoked |-> invoked, done |-> TRUE, out |-> <<>>]

\* NewProbe(config): the discarder registry is empty, the event is bound
Init ==
    /\ config \in [EnableDiscarders : BOOLEAN, SyscallMonitor : BOOLEAN,
                   EnableKernelFilters : BOOLEAN]
    /\ handler = NoHandler
    /\ eventsStats = EventsStatsZero
    /\ mounts = <<>>
    /\ event = NewEvent(ProbeResolvers)
    /\ onDiscardersFncs = [t \in EventTypeNames |-> <<>>]
    /\ managerOptions = <<>>
    /\ tables = [n \in TableNames |-> {}]
    /\ manager = NoManager
    /\ syscallMonitor = NoSyscallMonitor
    /\ startTime = "zero"
    /\ kernelVersion = 0
    /\ policyTables = [n \in PolicyTableNames |-> FilterPolicyZero]
    /\ pc = [c \in CPUs |-> "idle"]
    /\ data = [c \in CPUs |-> <<>>]
    /\ offset = [c \in CPUs |-> 0]
    /\ eventType = [c \in CPUs |-> 0]
    /\ handled = <<>>
    /\ call = NoCall
    /\ ncalls = 0
    /\ ninit = 0

AllIdle == \A c \in CPUs : pc[c] = "idle"

\* ------------------------------------------------------------------------
\* handleEvent, statement by statement
\* ------------------------------------------------------------------------
\* zeroEvent clearing the tag only and keeping the payloads of the last event
zeroEvent_KeepPayloads == [event EXCEPT !.Type = 0]

\* Probe.zeroEvent
zeroEvent == [eventZero EXCEPT !.resolvers = ProbeResolvers]

\* a return of handleEvent on CPU c: its locals are gone
Return(c) ==
    /\ pc' = [pc EXCEPT ![c] = "idle"]
    /\ data' = [data EXCEPT ![c] = <<>>]
    /\ offset' = [offset EXCEPT ![c] = 0]
    /\ eventType' = [eventType EXCEPT ![c] = 0]
    /\ call' = [call EXCEPT !.done = TRUE]

\* the transport calls handleEvent(CPU, data): offset := 0; p.zeroEvent()
HandleEventBegin(c, d) ==
    /\ pc[c] = "idle"
    /\ ncalls < MaxCalls
    /\ ncalls' = ncalls + 1
    /\ event' = zeroEvent
    /\ pc' = [pc EXCEPT ![c] = "unmarshal"]
    /\ data' = [data EXCEPT ![c] = d]
    /\ offset' = [offset EXCEPT ![c] = 0]
    /\ call' = [Called("handleEvent", d, NoError, 0, <<>>) EXCEPT !.done = FALSE]
    /\ UNCHANGED << handler, eventsStats, mounts, eventType, handled >>
    /\ UNCHANGED ruleVars

\* read, err := event.UnmarshalBinary(data); offset += read
UnmarshalHeader(c) ==
    /\ pc[c] = "unmarshal"
    /\ LET r == EventUnmarshalBinary(data[c])
       IN  IF r.err # NoError
           THEN /\ Return(c)
                /\ UNCHANGED event
           ELSE /\ event' = [event EXCEPT !.Type = r.Type]
                /\ offset' = [offset EXCEPT ![c] = @ + r.read]
                /\ pc' = [pc EXCEPT ![c] = "type"]
                /\ UNCHANGED << data, eventType, call >>
    /\ UNCHANGED << handler, eventsStats, mounts, handled, ncalls >>
    /\ UNCHANGED ruleVars

\* eventType := EventType(event.Type)
ReadEventType(c) ==
    /\ pc[c] = "type"
    /\ eventType' = [eventType EXCEPT ![c] = event.Type]
    /\ pc' = [pc EXCEPT ![c] = "switch"]
    /\ UNCHANGED << handler, eventsStats, mounts, event, data, offset,
                    handled, call, ncalls >>
    /\ UNCHANGED ruleVars

\* AfterPayload with the mount case going straight to the insertion
AfterPayload_InsertUnresolved(t) ==
    CASE t = FileMountEventType -> "insert"
      [] t = FileUmountEventType -> "delete"
      [] OTHER -> "count"

\* where the case of tag t goes on after its payload is decoded
AfterPayload(t) ==
    CASE t = FileMountEventType -> "resolveMountPoint"
      [] t = FileUmountEventType -> "delete"
      [] OTHER -> "count"

\* DecodePayload with the return after a failed payload decode left out
DecodePayload_NoReturnOnError(c) ==
    /\ pc[c] = "switch"
    /\ IF eventType[c] \notin SupportedTypes
       THEN /\ Return(c)
            /\ UNCHANGED event
       ELSE LET r == PayloadUnmarshalBinary(eventType[c],
                                            SliceFrom(data[c], offset[c]))
            IN  /\ event' = IF r.err # NoError THEN event
                            ELSE [event EXCEPT ![Variant(eventType[c])] = r.val]
                /\ pc' = [pc EXCEPT ![c] = AfterPayload(eventType[c])]
                /\ UNCHANGED << data, offset, eventType, call >>
    /\ UNCHANGED << handler, eventsStats, mounts, handled, ncalls >>
    /\ UNCHANGED ruleVars

\* switch eventType { case ...: event.<Variant>.UnmarshalBinary(data[offset:]) }
DecodePayload(c) ==
    /\ pc[c] = "switch"
    /\ IF eventType[c] \notin SupportedTypes
       THEN /\ Return(c)
            /\ UNCHANGED event
       ELSE LET r == PayloadUnmarshalBinary(eventType[c],
                                            SliceFrom(data[c], offset[c]))
            IN  IF r.err # NoError
                THEN /\ Return(c)
                     /\ UNCHANGED event
                ELSE /\ event' = [event EXCEPT ![Variant(eventType[c])] = r.val]
                     /\ pc' = [pc EXCEPT ![c] = AfterPayload(eventType[c])]
                     /\ UNCHANGED << data, offset, eventType, call >>
    /\ UNCHANGED << handler, eventsStats, mounts, handled, ncalls >>
    /\ UNCHANGED ruleVars

\* event.Mount.ResolveMountPoint(p.resolvers)
ResolveMountPointStep(c) ==
    /\ pc[c] = "resolveMountPoint"
    /\ event' = [event EXCEPT !.Mount = ResolveMountPoint(@)]
    /\ pc' = [pc EXCEPT ![c] = "resolveRoot"]
    /\ UNCHANGED << handler, eventsStats, mounts, data, offset, eventType,
                    handled, call, ncalls >>
    /\ UNCHANGED ruleVars

\* event.Mount.ResolveRoot(p.resolvers)
ResolveRootStep(c) ==
    /\ pc[c] = "resolveRoot"
    /\ event' = [event EXCEPT !.Mount = ResolveRoot(@)]
    /\ pc' = [pc EXCEPT ![c] = "insert"]
    /\ UNCHANGED << handler, eventsStats, mounts, data, offset, eventType,
                    handled, call, ncalls >>
    /\ UNCHANGED ruleVars

\* InsertMount with the insertion left out
InsertMount_Skipped(c) ==
    /\ pc[c] = "insert"
    /\ pc' = [pc EXCEPT ![c] = "count"]
    /\ UNCHANGED << handler, eventsStats, mounts, event, data, offset,
                    eventType, handled, call, ncalls >>
    /\ UNCHANGED ruleVars

\* p.resolvers.MountResolver.Insert(&event.Mount)
InsertMount(c) ==
    /\ pc[c] = "insert"
    /\ mounts' = MountInsert(mounts, event.Mount)
    /\ pc' = [pc EXCEPT ![c] = "count"]
    /\ UNCHANGED << handler, eventsStats, event, data, offset, eventType,
                    handled, call, ncalls >>
    /\ UNCHANGED ruleVars

\* DeleteMount returning from handleEvent when the id is not in the cache
DeleteMount_AbortOnError(c) ==
    /\ pc[c] = "delete"
    /\ LET r == MountDelete(mounts, event.Umount.MountID)
       IN  IF r.err # NoError
           THEN /\ Return(c)
                /\ UNCHANGED mounts
           ELSE /\ mounts' = r.mounts
                /\ pc' = [pc EXCEPT ![c] = "count"]
                /\ UNCHANGED << data, offset, eventType, call >>
    /\ UNCHANGED << handler, eventsStats, event, handled, ncalls >>
    /\ UNCHANGED ruleVars

\* p.resolvers.MountResolver.Delete(event.Umount.MountID); an error is logged
DeleteMount(c) ==
    /\ pc[c] = "delete"
    /\ mounts' = MountDelete(mounts, event.Umount.MountID).mounts
    /\ pc' = [pc EXCEPT ![c] = "count"]
    /\ UNCHANGED << handler, eventsStats, event, data, offset, eventType,
                    handled, call, ncalls >>
    /\ UNCHANGED ruleVars

\* CountEvent raising the counter of the previous ordinal
CountEvent_OffByOne(c) ==
    /\ pc[c] = "count"
    /\ eventsStats' = CountEventType(eventsStats, eventType[c] - 1, 1)
    /\ pc' = [pc EXCEPT ![c] = "dispatch"]
    /\ UNCHANGED << handler, mounts, event, data, offset, eventType, handled,
                    call, ncalls >>
    /\ UNCHANGED ruleVars

\* p.eventsStats.CountEventType(eventType, 1)
CountEvent(c) ==
    /\ pc[c] = "count"
    /\ eventsStats' = CountEventType(eventsStats, eventType[c], 1)
    /\ pc' = [pc EXCEPT ![c] = "dispatch"]
    /\ UNCHANGED << handler, mounts, event, data, offset, eventType, handled,
                    call, ncalls >>
    /\ UNCHANGED ruleVars

\* Probe.DispatchEvent: the handler, when there is one, gets the event
DispatchEvent(c) ==
    IF handler # NoHandler
    THEN handled' = Append(handled, [event |-> event, data |-> data[c],
                                     seen |-> eventsStats])
    ELSE UNCHANGED handled

\* p.DispatchEvent(event), and handleEvent returns
Dispatch(c) ==
    /\ pc[c] = "dispatch"
    /\ DispatchEvent(c)
    /\ Return(c)
    /\ UNCHANGED << handler, eventsStats, mounts, event, ncalls >>
    /\ UNCHANGED ruleVars

\* the statements of a callback that is under way
HandleEventStep(c) ==
    \/ UnmarshalHeader(c)
    \/ ReadEventType(c)
    \/ DecodePayload(c)
    \/ ResolveMountPointStep(c)
    \/ ResolveRootStep(c)
    \/ InsertMount(c)
    \/ DeleteMount(c)
    \/ CountEvent(c)
    \/ Dispatch(c)

\* ------------------------------------------------------------------------
\* handleLostEvents and SetEventHandler
\* ------------------------------------------------------------------------
\* the counts the transport reports: small ones and the largest uint64 values
LostCounts == {1, 2, MaxInt64 + 1, MaxUint64}

\* Probe.handleLostEvents: p.eventsStats.CountLost(int64(count))
handleLostEvents(c, count) ==
    /\ ncalls < MaxCalls
    /\ ncalls' = ncalls + 1
    /\ eventsStats' = CountLost(eventsStats, Int64OfUint64(count))
    /\ call' = Called("handleLostEvents", <<c, count>>, NoError, 0, <<>>)
    /\ UNCHANGED << handler, mounts, event, handled >>
    /\ UNCHANGED localVars
    /\ UNCHANGED ruleVars

\* SetEventHandler emptying the discarder registry as it sets the handler
SetEventHandler_ResetsRegistry(h) ==
    /\ ncalls < MaxCalls
    /\ ncalls' = ncalls + 1
    /\ handler' = h
    /\ onDiscardersFncs' = [t \in DOMAIN onDiscardersFncs |-> <<>>]
    /\ call' = Called("SetEventHandler", <<h>>, NoError, 0, <<>>)
    /\ UNCHANGED << eventsStats, mounts, event, handled >>
    /\ UNCHANGED localVars
    /\ UNCHANGED << config, managerOptions, tables, ninit, managerVars >>

\* Probe.SetEventHandler
SetEventHandler(h) ==
    /\ ncalls < MaxCalls
    /\ ncalls' = ncalls + 1
    /\ handler' = h
    /\ call' = Called("SetEventHandler", <<h>>, NoError, 0, <<>>)
    /\ UNCHANGED << eventsStats, mounts, event, handled >>
    /\ UNCHANGED localVars
    /\ UNCHANGED ruleVars

\* ------------------------------------------------------------------------
\* Init, OnNewDiscarder and ApplyApprovers
\* ------------------------------------------------------------------------
\* Probe.RegisterProbesSelectors
RegisterProbesSelectors(options, selectors) == options \o selectors

\* Probe.Init: the default manager options, the syscall monitor's probes, and
\* one more copy of every function of allDiscarderFncs in the registry.
\* With config.EnableKernelFilters false it logs a warning and writes nothing.
ProbeInit ==
    /\ ninit < MaxInit
    /\ ninit' = ninit + 1
    /\ managerOptions' =
          IF config.SyscallMonitor
          THEN RegisterProbesSelectors(<<>>, <<"SyscallMonitorSelectors">>)
          ELSE <<>>
    /\ onDiscardersFncs' =
          [t \in DOMAIN onDiscardersFncs |->
              IF t \in DOMAIN allDiscarderFncs
              THEN Append(onDiscardersFncs[t], allDiscarderFncs[t])
              ELSE onDiscardersFncs[t]]
    /\ call' = Called("Init", <<>>, NoError, 0, <<>>)
    /\ UNCHANGED << config, handler, eventsStats, mounts, event, tables,
                    handled, ncalls >>
    /\ UNCHANGED managerVars
    /\ UNCHANGED localVars

\* DiscarderLoop going on to the next function after one has failed
RECURSIVE DiscarderLoop_KeepGoing(_, _, _, _, _, _, _)
DiscarderLoop_KeepGoing(fncs, i, ev, field, fails, invoked, tbls) ==
    IF i > Len(fncs)
    THEN LET first == IF fails \cap (1 .. Len(fncs)) = {} THEN 0
                      ELSE CHOOSE k \in fails \cap (1 .. Len(fncs)) :
                              \A j \in fails \cap (1 .. Len(fncs)) : k <= j
         IN  [ret |-> IF first = 0 THEN NoError ELSE ErrDiscarder,
              errBy |-> first, invoked |-> invoked, tables |-> tbls]
    ELSE LET v == GetFieldValue(ev, field)
             discarder == [Field |-> field, Value |-> v.value]
             inv == Append(invoked, [fnc |-> fncs[i], pos |-> i,
                                     discarder |-> discarder])
         IN  IF v.err # NoError
             THEN [ret |-> v.err, errBy |-> 0, invoked |-> invoked,
                   tables |-> tbls]
             ELSE DiscarderLoop_KeepGoing(fncs, i + 1, ev, field, fails, inv,
                     IF i \in fails THEN tbls
                     ELSE DiscarderFncWrite(tbls, fncs[i], discarder))

\* for _, fnc := range p.onDiscardersFncs[eventType] { ... }, from the i-th
\* function on; fails are the invocations (by position) that return an error
RECURSIVE DiscarderLoop(_, _, _, _, _, _, _)
DiscarderLoop(fncs, i, ev, field, fails, invoked, tbls) ==
    IF i > Len(fncs)
    THEN [ret |-> NoError, errBy |-> 0, invoked |-> invoked, tables |-> tbls]
    ELSE LET v == GetFieldValue(ev, field)
             discarder == [Field |-> field, Value |-> v.value]
             inv == Append(invoked, [fnc |-> fncs[i], pos |-> i,
                                     discarder |-> discarder])
         IN  IF v.err # NoError
             THEN [ret |-> v.err, errBy |-> 0, invoked |-> invoked,
                   tables |-> tbls]
             ELSE IF i \in fails
             THEN [ret |-> ErrDiscarder, errBy |-> i, invoked |-> inv,
                   tables |-> tbls]
             ELSE DiscarderLoop(fncs, i + 1, ev, field, fails, inv,
                                DiscarderFncWrite(tbls, fncs[i], discarder))

\* OnNewDiscarderResult with the flag tested after the event type is resolved
OnNewDiscarderResult_LateFlagTest(ev, field, fails) ==
    LET t == GetFieldEventType(field)
    IN  IF t.err # NoError
        THEN [ret |-> t.err, errBy |-> 0, invoked |-> <<>>, tables |-> tables]
        ELSE IF ~config.EnableDiscarders
        THEN [ret |-> NoError, errBy |-> 0, invoked |-> <<>>, tables |-> tables]
        ELSE DiscarderLoop(onDiscardersFncs[t.eventType], 1, ev, field,
                           fails, <<>>, tables)

\* the outcome of Probe.OnNewDiscarder(rs, event, field)
OnNewDiscarderResult(ev, field, fails) ==
    IF ~config.EnableDiscarders
    THEN [ret |-> NoError, errBy |-> 0, invoked |-> <<>>, tables |-> tables]
    ELSE LET t == GetFieldEventType(field)
         IN  IF t.err # NoError
             THEN [ret |-> t.err, errBy |-> 0, invoked |-> <<>>,
                   tables |-> tables]
             ELSE DiscarderLoop(onDiscardersFncs[t.eventType], 1, ev, field,
                                fails, <<>>, tables)

\* the positions of the registry's longest list: which invocations may fail
Positions == 1 .. MaxInit

\* Probe.OnNewDiscarder, called by the rule engine with the probe's event
OnNewDiscarder(field, fails) ==
    /\ ncalls < MaxCalls
    /\ ncalls' = ncalls + 1
    /\ LET r == OnNewDiscarderResult(event, field, fails)
       IN  /\ tables' = r.tables
           /\ call' = Called("OnNewDiscarder", <<field, fails>>, r.ret,
                             r.errBy, r.invoked)
    /\ UNCHANGED << config, handler, eventsStats, mounts, event,
                    onDiscardersFncs, managerOptions, handled, ninit >>
    /\ UNCHANGED managerVars
    /\ UNCHANGED localVars

\* ApplyApproversResult swallowing the approver function's error
ApplyApproversResult_SwallowError(t, approvers, fncOk) ==
    IF t \notin DOMAIN allApproversFncs
    THEN [ret |-> NoError, invoked |-> <<>>, tables |-> tables]
    ELSE IF fncOk
    THEN [ret |-> NoError, invoked |-> <<allApproversFncs[t]>>,
          tables |-> ApproverFncWrite(tables, approvers)]
    ELSE [ret |-> NoError, invoked |-> <<allApproversFncs[t]>>,
          tables |-> tables]

\* ApplyApproversResult reporting a missing approver function as an error
ApplyApproversResult_AbsentIsError(t, approvers, fncOk) ==
    IF t \notin DOMAIN allApproversFncs
    THEN [ret |-> ErrApprover, invoked |-> <<>>, tables |-> tables]
    ELSE IF fncOk
    THEN [ret |-> NoError, invoked |-> <<allApproversFncs[t]>>,
          tables |-> ApproverFncWrite(tables, approvers)]
    ELSE [ret |-> ErrApprover, invoked |-> <<allApproversFncs[t]>>,
          tables |-> tables]

\* the outcome of Probe.ApplyApprovers(eventType, approvers)
ApplyApproversResult(t, approvers, fncOk) ==
    IF t \notin DOMAIN allApproversFncs
    THEN [ret |-> NoError, invoked |-> <<>>, tables |-> tables]
    ELSE IF fncOk
    THEN [ret |-> NoError, invoked |-> <<allApproversFncs[t]>>,
          tables |-> ApproverFncWrite(tables, approvers)]
    ELSE [ret |-> ErrApprover, invoked |-> <<allApproversFncs[t]>>,
          tables |-> tables]

\* Probe.ApplyApprovers; fncOk is whether the approver function succeeds
ApplyApprovers(t, approvers, fncOk) ==
    /\ ncalls < MaxCalls
    /\ ncalls' = ncalls + 1
    /\ LET r == ApplyApproversResult(t, approvers, fncOk)
       IN  /\ tables' = r.tables
           /\ call' = Called("ApplyApprovers", <<t, approvers, fncOk>>, r.ret,
                             IF r.ret = NoError THEN 0 ELSE 1, r.invoked)
    /\ UNCHANGED << config, handler, eventsStats, mounts, event,
                    onDiscardersFncs, managerOptions, handled, ninit >>
    /\ UNCHANGED managerVars
    /\ UNCHANGED localVars

\* ------------------------------------------------------------------------
\* InitManager, Map and ApplyFilterPolicy
\* ------------------------------------------------------------------------
KernelVersion == 1
\* what lib.CurrentKernelVersion can give: 0 stands for a failed detection
DetectedKernelVersions == {0, KernelVersion}

\* Probe.detectKernelVersion: a failed detection leaves the field alone
detectKernelVersion(old, detected) == IF detected = 0 THEN old ELSE detected

\* where InitManager can stop
InitManagerOutcomes ==
    {"GetSyscallFnName", "GetReader", "InitWithOptions", "resolvers.Init",
     "NewSyscallMonitor", "ok"}

\* Probe.InitManager; outcome names the call that fails, or "ok".  The
\* manager is created once: the guard lets InitManager run again only while
\* an earlier run failed before creating it.
InitManager(outcome, detected) ==
    /\ manager = NoManager
    /\ outcome = "NewSyscallMonitor" => config.SyscallMonitor
    /\ startTime' = "set"
    /\ kernelVersion' = detectKernelVersion(kernelVersion, detected)
    /\ manager' = IF outcome \in {"GetSyscallFnName", "GetReader"}
                  THEN manager
                  ELSE IF outcome = "InitWithOptions"
                  THEN ManagerCreated
                  ELSE ManagerInitialised
    /\ syscallMonitor' = IF config.SyscallMonitor
                            /\ outcome \in {"NewSyscallMonitor", "ok"}
                         THEN (IF outcome = "ok" THEN TheSyscallMonitor
                                                 ELSE NoSyscallMonitor)
                         ELSE syscallMonitor
    /\ call' = Called("InitManager", <<outcome, detected>>,
                      IF outcome = "ok" THEN NoError ELSE ErrInitManager,
                      IF outcome = "ok" THEN 0 ELSE 1, <<>>)
    /\ UNCHANGED << config, handler, eventsStats, mounts, event,
                    onDiscardersFncs, managerOptions, tables, policyTables,
                    handled, ncalls, ninit >>
    /\ UNCHANGED localVars

NoMap == "nil"

\* Probe.Map(name): the table, or nil when there is no manager or the
\* manager does not have the map
Map(name) ==
    IF manager = NoManager
    THEN NoMap
    ELSE IF manager = ManagerInitialised /\ name \in PolicyTableNames
    THEN name
    ELSE NoMap

\* ApplyFilterPolicyResult merging the mode into the slot and keeping the
\* flags already there
ApplyFilterPolicyResult_KeepFlags(tableName, mode, flags, putOk) ==
    LET table == Map(tableName)
    IN  IF table = NoMap
        THEN [ret |-> ErrTableNotFound, policyTables |-> policyTables]
        ELSE IF putOk
        THEN [ret |-> NoError,
              policyTables |->
                  [policyTables EXCEPT ![table] =
                      [Mode |-> mode, Flags |-> policyTables[table].Flags]]]
        ELSE [ret |-> ErrPut, policyTables |-> policyTables]

\* the outcome of Probe.ApplyFilterPolicy; putOk is whether table.Put
\* succeeds, and a failed Put leaves the slot as it was
ApplyFilterPolicyResult(tableName, mode, flags, putOk) ==
    LET table == Map(tableName)
    IN  IF table = NoMap
        THEN [ret |-> ErrTableNotFound, policyTables |-> policyTables]
        ELSE IF putOk
        THEN [ret |-> NoError,
              policyTables |->
                  [policyTables EXCEPT ![table] =
                      [Mode |-> mode, Flags |-> flags]]]
        ELSE [ret |-> ErrPut, policyTables |-> policyTables]

\* the event types a filter policy is applied for
PolicyEventTypes == {"open", "unlink"}

\* Probe.ApplyFilterPolicy(eventType, tableName, mode, flags)
ApplyFilterPolicy(t, tableName, mode, flags, putOk) ==
    /\ ncalls < MaxCalls
    /\ ncalls' = ncalls + 1
    /\ LET r == ApplyFilterPolicyResult(tableName, mode, flags, putOk)
       IN  /\ policyTables' = r.policyTables
           /\ call' = Called("ApplyFilterPolicy",
                             <<t, tableName, mode, flags, putOk>>, r.ret,
                             IF r.ret = NoError THEN 0 ELSE 1, <<>>)
    /\ UNCHANGED << config, handler, eventsStats, mounts, event,
                    onDiscardersFncs, managerOptions, tables, manager,
                    syscallMonitor, startTime, kernelVersion, handled, ninit >>
    /\ UNCHANGED localVars

\* ------------------------------------------------------------------------
\* SendStats and GetStats
\* ------------------------------------------------------------------------
\* EventsStats.GetLost: atomic.LoadInt64(&e.Lost)
GetLost(stats) == stats.Lost

\* EventsStats.GetEventCount: atomic.LoadInt64(&e.PerEventType[eventType])
GetEventCount(stats, t) == stats.PerEventType[t]

\* EventsStats.GetAndResetLost: atomic.SwapInt64(&e.Lost, 0)
GetAndResetLost(stats) ==
    [value |-> stats.Lost, stats |-> [stats EXCEPT !.Lost = 0]]

\* GetAndResetEventCount reading the counter and leaving it as it is
GetAndResetEventCount_NoReset(stats, t) ==
    [value |-> stats.PerEventType[t], stats |-> stats]

\* EventsStats.GetAndResetEventCount:
\* atomic.SwapInt64(&e.PerEventType[eventType], 0)
GetAndResetEventCount(stats, t) ==
    [value |-> stats.PerEventType[t],
     stats |-> [stats EXCEPT !.PerEventType[t] = 0]]

\* the metrics SendStats counts: the lost events, and one per event type
LostMetric == "lost"
NoFailure == "none"
\* which statsdClient.Count call fails, if any
StatsdFailures == {NoFailure, LostMetric} \cup EventTypeNames

\* one destructive read of SendStats: the counter, the value read, whether
\* statsdClient.Count was called with it and whether that call succeeded
StatRead(key, value, counted, ok) ==
    [key |-> key, value |-> value, counted |-> counted, ok |-> ok]

\* the loop of SendStats over PerEventType, from index i on
RECURSIVE SendStatsLoop(_, _, _, _)
SendStatsLoop(stats, i, reads, failKey) ==
    IF i >= maxEventType
    THEN [ret |-> NoError, stats |-> stats, reads |-> reads]
    ELSE IF i = 0
    THEN SendStatsLoop(stats, i + 1, reads, failKey)
    ELSE LET r == GetAndResetEventCount(stats, i)
             key == EventTypeString(i)
         IN  IF r.value > 0
             THEN IF failKey = key
                  THEN [ret |-> ErrStatsd, stats |-> r.stats,
                        reads |-> Append(reads, StatRead(key, r.value, TRUE, FALSE))]
                  ELSE SendStatsLoop(r.stats, i + 1,
                           Append(reads, StatRead(key, r.value, TRUE, TRUE)),
                           failKey)
             ELSE SendStatsLoop(r.stats, i + 1,
                      Append(reads, StatRead(key, r.value, FALSE, FALSE)),
                      failKey)

\* the outcome of Probe.SendStats; monitorOk is whether the syscall
\* monitor's own SendStats succeeds
SendStatsResult(stats, monitorOk, failKey) ==
    IF syscallMonitor # NoSyscallMonitor /\ ~monitorOk
    THEN [ret |-> ErrSyscallMonitor, stats |-> stats, reads |-> <<>>]
    ELSE LET r == GetAndResetLost(stats)
         IN  IF failKey = LostMetric
             THEN [ret |-> ErrStatsd, stats |-> r.stats,
                   reads |-> << StatRead(LostMetric, r.value, TRUE, FALSE) >>]
             ELSE SendStatsLoop(r.stats, 0,
                      << StatRead(LostMetric, r.value, TRUE, TRUE) >>, failKey)

\* Probe.SendStats(statsdClient)
SendStats(monitorOk, failKey) ==
    /\ ncalls < MaxCalls
    /\ ncalls' = ncalls + 1
    /\ LET r == SendStatsResult(eventsStats, monitorOk, failKey)
       IN  /\ eventsStats' = r.stats
           /\ call' = Called("SendStats", <<monitorOk, failKey>>, r.ret,
                             IF r.ret = NoError THEN 0 ELSE 1, r.reads)
    /\ UNCHANGED << handler, mounts, event, handled >>
    /\ UNCHANGED localVars
    /\ UNCHANGED ruleVars

\* map[key] = value on a Go map
MapPut(m, k, v) == [x \in DOMAIN m \cup {k} |-> IF x = k THEN v ELSE m[x]]

\* the loop of GetStats over PerEventType, from index i on
RECURSIVE GetStatsLoop(_, _, _)
GetStatsLoop(stats, i, perEventType) ==
    IF i >= maxEventType
    THEN perEventType
    ELSE IF i = 0
    THEN GetStatsLoop(stats, i + 1, perEventType)
    ELSE GetStatsLoop(stats, i + 1,
             MapPut(perEventType, EventTypeString(i), GetEventCount(stats, i)))

NoSyscallStats == "nil"
TheSyscallStats == "syscallStats"

\* GetStatsResult reading the lost counter with GetAndResetLost
GetStatsResult_ResetLost(stats, monitorOk) ==
    [ret |-> IF syscallMonitor # NoSyscallMonitor /\ ~monitorOk
             THEN ErrSyscallMonitor ELSE NoError,
     out |-> [events |->
                 [lost |-> GetAndResetLost(stats).value,
                  syscalls |-> IF syscallMonitor # NoSyscallMonitor /\ monitorOk
                               THEN TheSyscallStats ELSE NoSyscallStats],
              per_event_type |-> GetStatsLoop(stats, 0, <<>>)],
     stats |-> GetAndResetLost(stats).stats]

\* the outcome of Probe.GetStats: the error of the syscall monitor, the map
\* returned (built also when the monitor fails) and the counters afterwards
GetStatsResult(stats, monitorOk) ==
    [ret |-> IF syscallMonitor # NoSyscallMonitor /\ ~monitorOk
             THEN ErrSyscallMonitor ELSE NoError,
     out |-> [events |->
                 [lost |-> GetLost(stats),
                  syscalls |-> IF syscallMonitor # NoSyscallMonitor /\ monitorOk
                               THEN TheSyscallStats ELSE NoSyscallStats],
              per_event_type |-> GetStatsLoop(stats, 0, <<>>)],
     stats |-> stats]

\* Probe.GetStats()
GetStats(monitorOk) ==
    /\ ncalls < MaxCalls
    /\ ncalls' = ncalls + 1
    /\ LET r == GetStatsResult(eventsStats, monitorOk)
       IN  /\ eventsStats' = r.stats
           /\ call' = [Called("GetStats", <<monitorOk>>, r.ret,
                              IF r.ret = NoError THEN 0 ELSE 1, <<>>)
                          EXCEPT !.out = r.out]
    /\ UNCHANGED << handler, mounts, event, handled >>
    /\ UNCHANGED localVars
    /\ UNCHANGED ruleVars

\* ------------------------------------------------------------------------
\* Snapshot
\* ------------------------------------------------------------------------
ErrSnapshot == "snapshot failed"

\* Resolvers.Snapshot syncing the mount cache with the mounts of the system
SnapshotMounts(m, ids) ==
    [id \in (DOMAIN m) \cup ids |->
        IF id \in ids
        THEN ResolveRoot(ResolveMountPoint([MountEventZero EXCEPT !.MountID = id]))
        ELSE m[id]]

\* Probe.Snapshot: p.resolvers.Snapshot(5); ids are the mounts the system
\* has, ok is whether the resolvers' snapshot succeeds
ProbeSnapshot(ids, ok) ==
    /\ ncalls < MaxCalls
    /\ ncalls' = ncalls + 1
    /\ mounts' = IF ok THEN SnapshotMounts(mounts, ids) ELSE mounts
    /\ call' = Called("Snapshot", <<ids, ok>>,
                      IF ok THEN NoError ELSE ErrSnapshot,
                      IF ok THEN 0 ELSE 1, <<>>)
    /\ UNCHANGED << handler, eventsStats, event, handled >>
    /\ UNCHANGED localVars
    /\ UNCHANGED ruleVars

\* ------------------------------------------------------------------------
\* Sequential delivery: the stream of one CPU, one callback at a time
\* ------------------------------------------------------------------------
StreamCPU == CHOOSE c \in CPUs : \A o \in CPUs : c <= o

Next ==
    \/ \E d \in Buffers : AllIdle /\ HandleEventBegin(StreamCPU, d)
    \/ HandleEventStep(StreamCPU)
    \/ \E n \in LostCounts : AllIdle /\ handleLostEvents(StreamCPU, n)
    \/ \E h \in Handlers : AllIdle /\ SetEventHandler(h)

Spec == Init /\ [][Next]_vars

\* ------------------------------------------------------------------------
\* The statistics: the stream of one CPU counted, exported and read
\* ------------------------------------------------------------------------
NextStats ==
    \/ \E d \in Buffers : AllIdle /\ HandleEventBegin(StreamCPU, d)
    \/ HandleEventStep(StreamCPU)
    \/ \E n \in LostCounts : AllIdle /\ handleLostEvents(StreamCPU, n)
    \/ \E o \in InitManagerOutcomes, kv \in DetectedKernelVersions :
          AllIdle /\ InitManager(o, kv)
    \/ \E ok \in BOOLEAN, f \in StatsdFailures : AllIdle /\ SendStats(ok, f)
    \/ \E ok \in BOOLEAN : AllIdle /\ GetStats(ok)

\* the counters and their export read config.SyscallMonitor only, so the
\* other two flags are fixed here
InitStats == Init /\ config.EnableDiscarders /\ config.EnableKernelFilters

SpecStats == InitStats /\ [][NextStats]_vars

\* ------------------------------------------------------------------------
\* The whole probe: every operation, one call at a time
\* ------------------------------------------------------------------------
\* the operations the probe serves once Init has returned; the steps below
\* draw the arguments of the rule engine's calls and the failures of the
\* metrics client from a part of the sets the other specifications use
Ready == AllIdle /\ ninit >= 1

NextProbe ==
    \/ AllIdle /\ ProbeInit
    \/ \E o \in InitManagerOutcomes : AllIdle /\ InitManager(o, KernelVersion)
    \/ \E d \in Buffers : Ready /\ HandleEventBegin(StreamCPU, d)
    \/ HandleEventStep(StreamCPU)
    \/ \E n \in LostCounts : Ready /\ handleLostEvents(StreamCPU, n)
    \/ \E h \in Handlers : Ready /\ SetEventHandler(h)
    \/ \E f \in Fields, fails \in SUBSET Positions :
          Ready /\ OnNewDiscarder(f, fails)
    \/ \E t \in PolicyEventTypes \cup {"rename"}, a \in ApproverSets,
          ok \in BOOLEAN :
          Ready /\ ApplyApprovers(t, a, ok)
    \/ \E t \in PolicyEventTypes, n \in RequestedTableNames,
          m \in PolicyModes, ok \in BOOLEAN :
          Ready /\ ApplyFilterPolicy(t, n, m, 0, ok)
    \/ \E ok \in BOOLEAN, f \in {NoFailure, LostMetric, "open"} :
          Ready /\ SendStats(ok, f)
    \/ \E ok \in BOOLEAN : Ready /\ GetStats(ok)
    \/ \E ids \in SUBSET MountIDs, ok \in BOOLEAN :
          Ready /\ ProbeSnapshot(ids, ok)

\* the registries are reached through config.EnableDiscarders only, so the
\* other two flags are fixed here
InitProbe == Init /\ config.SyscallMonitor /\ config.EnableKernelFilters

SpecProbe == InitProbe /\ [][NextProbe]_vars

\* ------------------------------------------------------------------------
\* Concurrent delivery: the callbacks of the CPUs interleave
\* ------------------------------------------------------------------------
NextConc ==
    \/ \E c \in CPUs, d \in Buffers : HandleEventBegin(c, d)
    \/ \E c \in CPUs : HandleEventStep(c)
    \/ \E h \in Handlers : SetEventHandler(h)

SpecConc == Init /\ [][NextConc]_vars

\* ------------------------------------------------------------------------
\* The rule engine: Init, then discarders and approvers
\* ------------------------------------------------------------------------
NextRules ==
    \/ ProbeInit
    \/ \E f \in Fields, fails \in SUBSET Positions : OnNewDiscarder(f, fails)
    \/ \E t \in EventTypeNames, a \in ApproverSets, ok \in BOOLEAN :
          ApplyApprovers(t, a, ok)

SpecRules == Init /\ [][NextRules]_vars

\* ------------------------------------------------------------------------
\* The policy side: the probe is set up and filter policies are applied
\* ------------------------------------------------------------------------
NextPolicy ==
    \/ ProbeInit
    \/ \E o \in InitManagerOutcomes, kv \in DetectedKernelVersions :
          InitManager(o, kv)
    \/ \E t \in PolicyEventTypes, n \in RequestedTableNames,
          m \in PolicyModes, f \in PolicyFlags, ok \in BOOLEAN :
          ApplyFilterPolicy(t, n, m, f, ok)

SpecPolicy == Init /\ [][NextPolicy]_vars

\* ------------------------------------------------------------------------
\* What a buffer decodes to, read off the buffer alone
\* ------------------------------------------------------------------------
\* the header cannot be decoded, the tag has no case, or the payload is short
DecodeError(d) ==
    LET h == EventUnmarshalBinary(d)
    IN  \/ h.err # NoError
        \/ h.Type \notin SupportedTypes
        \/ PayloadUnmarshalBinary(h.Type, SliceFrom(d, h.read)).err # NoError

TagOf(d) == d[1]
PayloadByte(d) == d[2]

\* the value the event carries for the variant of tag t
PayloadOf(ev, t) ==
    CASE t = FileMountEventType -> ev.Mount.MountID
      [] t = FileUmountEventType -> ev.Umount.MountID
      [] OTHER -> ev[Variant(t)]

\* the event is the one buffer d decodes to
EventOfBuffer(ev, d) ==
    /\ ev.Type = TagOf(d)
    /\ PayloadOf(ev, TagOf(d)) = PayloadByte(d)

\* the last call is a handleEvent, under way or returned
InHandleEvent == call.op = "handleEvent"
\* the last call is a handleEvent that has returned
HandleEventDone == call.op = "handleEvent" /\ call.done

\* the consumer has been invoked n times since the last call began
Notified(n) == Len(handled) = call.pre.nhandled + n

\* ------------------------------------------------------------------------
\* C1: a buffer whose decoding fails (header, unsupported tag or payload)
\* changes no per-event-type counter and not the lost counter, does not
\* invoke the consumer, and neither inserts into nor deletes from the mount
\* cache: at every point of its handleEvent and after it.
\* ------------------------------------------------------------------------
C1_FailedDecodeNoEffect ==
    (InHandleEvent /\ DecodeError(call.arg)) =>
        /\ eventsStats = call.pre.eventsStats
        /\ mounts = call.pre.mounts
        /\ Notified(0)

\* a mount buffer without its payload has been dropped while a consumer was
\* registered
C1_Witness ==
    /\ HandleEventDone
    /\ call.arg = <<FileMountEventType>>
    /\ DecodeError(call.arg)
    /\ handler # NoHandler

\* ------------------------------------------------------------------------
\* C2: a buffer that decodes with tag T raises the counter of T by exactly 1
\* and no other counter nor the lost counter; the consumer, when there is
\* one, is invoked exactly once, with the decoded event and after the
\* increment; with no consumer the counter is raised and nobody is invoked.
\* ------------------------------------------------------------------------
CountedOnce(stats, pre, T) ==
    /\ stats.Lost = pre.Lost
    /\ \A t \in DOMAIN stats.PerEventType :
          stats.PerEventType[t] =
              pre.PerEventType[t] + (IF t = T THEN 1 ELSE 0)

C2_CountThenNotifyOnce ==
    (InHandleEvent /\ ~DecodeError(call.arg)) =>
        LET T == TagOf(call.arg)
            pre == call.pre.eventsStats
        IN  /\ eventsStats = pre \/ CountedOnce(eventsStats, pre, T)
            /\ Notified(0) \/ Notified(1)
            /\ Notified(1) =>
                  /\ CountedOnce(handled[Len(handled)].seen, pre, T)
                  /\ EventOfBuffer(handled[Len(handled)].event, call.arg)
                  /\ handled[Len(handled)].data = call.arg
            /\ call.done =>
                  /\ CountedOnce(eventsStats, pre, T)
                  /\ IF handler # NoHandler THEN Notified(1) ELSE Notified(0)

\* an open event has been counted and handed to the registered consumer
C2_Witness ==
    /\ HandleEventDone
    /\ call.arg = <<FileOpenEventType, 1>>
    /\ handler # NoHandler
    /\ Notified(1)
    /\ eventsStats.PerEventType[FileOpenEventType] = 1

\* ------------------------------------------------------------------------
\* C3: under concurrent callbacks every callback counts the tag of its own
\* buffer, and the event it hands to the consumer is the one its own buffer
\* decodes to.
\* ------------------------------------------------------------------------
C3_OwnBufferUnderConcurrency ==
    /\ \A c \in CPUs :
          pc[c] \in {"count", "dispatch"} =>
              /\ ~DecodeError(data[c])
              /\ eventType[c] = TagOf(data[c])
    /\ \A i \in 1 .. Len(handled) :
          /\ ~DecodeError(handled[i].data)
          /\ EventOfBuffer(handled[i].event, handled[i].data)

\* ------------------------------------------------------------------------
\* C4: for a mount event that decodes, the mount point and the root are
\* resolved before the entry is inserted, and the entry is inserted before
\* the counter is raised and before the consumer is notified; a mount
\* buffer whose payload fails to decode inserts nothing.
\* ------------------------------------------------------------------------
ResolvedEntry(id) == [MountID |-> id, MountPointStr |-> "/point", RootStr |-> "/root"]

C4_ResolveInsertCountNotify ==
    (InHandleEvent /\ Len(call.arg) >= 1 /\ TagOf(call.arg) = FileMountEventType) =>
        IF DecodeError(call.arg)
        THEN mounts = call.pre.mounts
        ELSE LET inserted == MountInsert(call.pre.mounts,
                                         ResolvedEntry(PayloadByte(call.arg)))
             IN  /\ mounts = call.pre.mounts \/ mounts = inserted
                 /\ eventsStats # call.pre.eventsStats => mounts = inserted
                 /\ ~Notified(0) => mounts = inserted
                 /\ call.done => mounts = inserted

\* a mount event has put a new, resolved entry in the cache and been counted
C4_Witness ==
    /\ HandleEventDone
    /\ call.arg = <<FileMountEventType, 1>>
    /\ 1 \notin DOMAIN call.pre.mounts
    /\ mounts[1] = ResolvedEntry(1)
    /\ eventsStats.PerEventType[FileMountEventType] = 1

\* ------------------------------------------------------------------------
\* C5: a umount event that decodes deletes the entry of its mount id; when
\* the id is not in the cache the cache is left as it was, and in both
\* cases the umount counter is raised by 1 and the consumer is notified
\* with the event.
\* ------------------------------------------------------------------------
C5_UmountDeletesAndDispatches ==
    (HandleEventDone /\ ~DecodeError(call.arg)
       /\ TagOf(call.arg) = FileUmountEventType) =>
        LET id == PayloadByte(call.arg)
        IN  /\ DOMAIN mounts = (DOMAIN call.pre.mounts) \ {id}
            /\ \A m \in DOMAIN mounts : mounts[m] = call.pre.mounts[m]
            /\ id \notin DOMAIN call.pre.mounts => mounts = call.pre.mounts
            /\ CountedOnce(eventsStats, call.pre.eventsStats, FileUmountEventType)
            /\ handler # NoHandler =>
                  /\ Notified(1)
                  /\ EventOfBuffer(handled[Len(handled)].event, call.arg)

\* a umount event for an id that is not in the cache has been counted and
\* handed to the consumer
C5_Witness ==
    /\ HandleEventDone
    /\ call.arg = <<FileUmountEventType, 2>>
    /\ 2 \notin DOMAIN call.pre.mounts
    /\ handler # NoHandler
    /\ Notified(1)
    /\ eventsStats.PerEventType[FileUmountEventType] = 1

\* ------------------------------------------------------------------------
\* C6: in one CPU's stream a mount id m that a mount event has put in the
\* cache stays in it through every later call, whatever it delivers, until
\* a umount event for m; from that umount on a lookup of m finds nothing,
\* until the next mount event for m.
\* ------------------------------------------------------------------------
\* MountResolver lookup by id
MountLookup(m, id) ==
    IF id \in DOMAIN m THEN [found |-> TRUE, entry |-> m[id]]
                      ELSE [found |-> FALSE, entry |-> MountEventZero]

IsEventFor(t, m) == InHandleEvent /\ call.arg = <<t, m>>

C6_MountLifecycle ==
    \A m \in MountIDs :
        LET before == call.op # "none" /\ MountLookup(call.pre.mounts, m).found
            now == MountLookup(mounts, m).found
        IN  /\ call.op = "none" => ~now
            /\ (call.op # "none" /\ before
                  /\ ~IsEventFor(FileUmountEventType, m)) => now
            /\ (call.op # "none" /\ ~before
                  /\ ~IsEventFor(FileMountEventType, m)) => ~now
            /\ (IsEventFor(FileMountEventType, m) /\ call.done) => now
            /\ (IsEventFor(FileUmountEventType, m) /\ call.done) => ~now

\* an open event has been dispatched to the consumer with the entry of an
\* earlier mount event still in the cache
C6_Witness ==
    /\ HandleEventDone
    /\ call.arg = <<FileOpenEventType, 1>>
    /\ MountLookup(call.pre.mounts, 1).found
    /\ MountLookup(mounts, 1).found
    /\ ~MountLookup(mounts, 2).found

\* ------------------------------------------------------------------------
\* C7: handleLostEvents(cpu, count) raises the lost counter by count and
\* leaves the per-event-type counters, the mount cache and the shared event
\* as they were; it does not invoke the consumer.
\* ------------------------------------------------------------------------
IsCall(op) == ncalls' = ncalls + 1 /\ call'.op = op

C7_LostCountedFrameKept ==
    [][ IsCall("handleLostEvents") =>
            /\ eventsStats'.Lost = eventsStats.Lost + call'.arg[2]
            /\ eventsStats'.PerEventType = eventsStats.PerEventType
            /\ UNCHANGED << mounts, event, handled >> ]_vars

\* ------------------------------------------------------------------------
\* C8: with discarders enabled, OnNewDiscarder invokes the functions
\* registered for the field's event type in registration order; the first
\* one that fails ends the call, none after it is invoked and its error is
\* the one returned; when none fails each has been invoked exactly once and
\* the call returns success.
\* ------------------------------------------------------------------------
\* the first of the n registered functions that fails, 0 when none does
FirstFailure(fails, n) ==
    LET F == fails \cap (1 .. n)
    IN  IF F = {} THEN 0 ELSE CHOOSE i \in F : \A j \in F : i <= j

C8_DiscardersInOrderFailFast ==
    (call.op = "OnNewDiscarder" /\ config.EnableDiscarders
       /\ GetFieldEventType(call.arg[1]).err = NoError) =>
        LET fncs == onDiscardersFncs[GetFieldEventType(call.arg[1]).eventType]
            first == FirstFailure(call.arg[2], Len(fncs))
        IN  /\ Len(call.invoked) <= Len(fncs)
            /\ \A i \in 1 .. Len(call.invoked) :
                  /\ call.invoked[i].fnc = fncs[i]
                  /\ call.invoked[i].pos = i
                  /\ call.invoked[i].discarder.Field = call.arg[1]
            /\ IF first = 0
               THEN /\ Len(call.invoked) = Len(fncs)
                    /\ call.ret = NoError
               ELSE /\ Len(call.invoked) = first
                    /\ call.ret = ErrDiscarder
                    /\ call.errBy = first

\* two functions are registered for "open", the first failed, and the second
\* was not invoked
C8_Witness ==
    /\ call.op = "OnNewDiscarder"
    /\ config.EnableDiscarders
    /\ call.arg[1] = "open.filename"
    /\ Len(onDiscardersFncs["open"]) = 2
    /\ 1 \in call.arg[2]
    /\ Len(call.invoked) = 1
    /\ call.ret = ErrDiscarder
    /\ call.errBy = 1

\* ------------------------------------------------------------------------
\* C9: with EnableDiscarders false, OnNewDiscarder returns success for every
\* field, also one whose event type or value cannot be resolved, invokes no
\* discarder function and changes nothing of the probe or the kernel maps.
\* ------------------------------------------------------------------------
C9_DisabledDiscardersNoOp ==
    [][ (IsCall("OnNewDiscarder") /\ ~config.EnableDiscarders) =>
            /\ call'.ret = NoError
            /\ Len(call'.invoked) = 0
            /\ UNCHANGED probeVars
            /\ UNCHANGED handled ]_vars

\* with discarders disabled, a call for a field that cannot be resolved has
\* returned success
C9_Witness ==
    /\ call.op = "OnNewDiscarder"
    /\ ~config.EnableDiscarders
    /\ call.arg[1] = "no.such.field"
    /\ call.ret = NoError

\* ------------------------------------------------------------------------
\* C10: ApplyApprovers for an event type with no registered approver
\* function returns success, invokes no function and writes to no kernel
\* map.
\* ------------------------------------------------------------------------
C10_NoApproverIsSuccess ==
    [][ (IsCall("ApplyApprovers") /\ call'.arg[1] \notin DOMAIN allApproversFncs) =>
            /\ call'.ret = NoError
            /\ Len(call'.invoked) = 0
            /\ UNCHANGED tables ]_vars

\* ApplyApprovers("rename", {"basename"}) has returned success with the
\* kernel maps still empty
C10_Witness ==
    /\ call.op = "ApplyApprovers"
    /\ call.arg[1] = "rename"
    /\ call.arg[2] = {"basename"}
    /\ call.ret = NoError
    /\ \A n \in TableNames : tables[n] = {}

\* ------------------------------------------------------------------------
\* C11: ApplyApprovers for an event type with a registered approver
\* function invokes that function exactly once and returns exactly what it
\* returned: success when it succeeds, its error when it fails.
\* ------------------------------------------------------------------------
C11_ApproverOutcomeReturned ==
    [][ (IsCall("ApplyApprovers") /\ call'.arg[1] \in DOMAIN allApproversFncs) =>
            /\ call'.invoked = << allApproversFncs[call'.arg[1]] >>
            /\ call'.arg[3] => (call'.ret = NoError /\ call'.errBy = 0)
            /\ ~call'.arg[3] => (call'.ret = ErrApprover /\ call'.errBy = 1) ]_vars

\* ApplyApprovers("open", {"basename"}) whose approver function failed has
\* invoked it once and returned its error
C11_Witness ==
    /\ call.op = "ApplyApprovers"
    /\ call.arg[1] = "open"
    /\ call.arg[2] = {"basename"}
    /\ ~call.arg[3]
    /\ call.invoked = << "openOnNewApprovers" >>
    /\ call.ret = ErrApprover

\* ------------------------------------------------------------------------
\* C12 (as stated): every ApplyFilterPolicy call that names a policy table
\* and finds it leaves that table's sentinel slot holding the call's
\* (mode, flags); a call whose table does not resolve returns the
\* table-not-found error and leaves every table unchanged.
\* ------------------------------------------------------------------------
PolicyTableFound(name) == manager = ManagerInitialised /\ name \in PolicyTableNames

C12_LastFoundCallWins ==
    [][ IsCall("ApplyFilterPolicy") =>
            LET a == call'.arg
            IN  IF PolicyTableFound(a[2])
                THEN policyTables'[a[2]] = [Mode |-> a[3], Flags |-> a[4]]
                ELSE /\ call'.ret = ErrTableNotFound
                     /\ UNCHANGED policyTables ]_vars

\* ------------------------------------------------------------------------
\* C12 (amended): a policy table's sentinel slot changes only in an
\* ApplyFilterPolicy call that names the table, finds it and whose write
\* succeeds, and then holds exactly that call's (mode, flags) while every
\* other table keeps its slot; a call whose table does not resolve (the
\* manager not initialised included) returns the table-not-found error, a
\* call whose write fails returns the write's error, and both leave every
\* table unchanged.
\* ------------------------------------------------------------------------
C12_LastWrittenCallWins ==
    [][ IF IsCall("ApplyFilterPolicy")
        THEN LET a == call'.arg
             IN  IF ~PolicyTableFound(a[2])
                 THEN /\ call'.ret = ErrTableNotFound
                      /\ UNCHANGED policyTables
                 ELSE IF a[5]
                 THEN /\ call'.ret = NoError
                      /\ policyTables' =
                             [policyTables EXCEPT ![a[2]] =
                                 [Mode |-> a[3], Flags |-> a[4]]]
                 ELSE /\ call'.ret = ErrPut
                      /\ UNCHANGED policyTables
        ELSE UNCHANGED policyTables ]_vars

\* a second ApplyFilterPolicy on "open_policy" has replaced both the mode
\* and the flags the first one wrote, and "unlink_policy" is still unwritten
C12_Witness ==
    /\ call.op = "ApplyFilterPolicy"
    /\ ncalls = 2
    /\ call.arg[2] = "open_policy"
    /\ call.arg[3] = PolicyModeDeny
    /\ call.arg[4] = 0
    /\ call.ret = NoError
    /\ policyTables["open_policy"] = [Mode |-> PolicyModeDeny, Flags |-> 0]
    /\ policyTables["unlink_policy"] = FilterPolicyZero

\* ------------------------------------------------------------------------
\* C13: with EnableKernelFilters false, once Init has run and the policy
\* tables are loaded, every policy table explicitly holds the pass mode: no
\* table holds a filtering mode, and none holds the unset, zero-valued
\* record, whatever ApplyFilterPolicy calls were made.
\* ------------------------------------------------------------------------
C13_ExplicitPassWhenFilteringOff ==
    (~config.EnableKernelFilters /\ ninit >= 1 /\ manager = ManagerInitialised) =>
        \A n \in PolicyTableNames :
            /\ policyTables[n] # FilterPolicyZero
            /\ policyTables[n].Mode = PolicyModeAccept

\* ------------------------------------------------------------------------
\* Helpers of the claims about the statistics
\* ------------------------------------------------------------------------
\* the counters in the order SendStats reads them: the lost counter, then
\* the event types 1, 2, ...
CounterKey(i) == IF i = 1 THEN LostMetric ELSE EventTypeString(i - 1)
CounterValue(stats, i) == IF i = 1 THEN stats.Lost ELSE stats.PerEventType[i - 1]
NCounters == maxEventType

\* ------------------------------------------------------------------------
\* C14 (as stated): SendStats reads every counter destructively, so right
\* after any SendStats the lost counter and the counter of every event type
\* other than ordinal 0 are 0, and a SendStats that follows at once reads 0
\* for every counter.
\* ------------------------------------------------------------------------
C14_EveryCounterReadAndReset ==
    call.op = "SendStats" =>
        /\ Len(call.invoked) = NCounters
        /\ \A i \in 1 .. NCounters : CounterValue(eventsStats, i) = 0

\* ------------------------------------------------------------------------
\* C14 (amended): SendStats reads the counters in order, the lost counter
\* first, up to the first failing metrics call; every read it makes returns
\* the counter's value and leaves the counter at 0, and the counters it did
\* not reach keep their value.  A SendStats that returns success has read
\* the lost counter and every event type other than ordinal 0, so a
\* SendStats that follows a successful one at once reads 0 for every counter
\* and emits no per-type metric.
\* ------------------------------------------------------------------------
C14_ReadsAreDestructive ==
    [][ IsCall("SendStats") =>
            LET reads == call'.invoked
            IN  /\ Len(reads) <= NCounters
                /\ \A i \in 1 .. NCounters :
                      IF i <= Len(reads)
                      THEN /\ reads[i].key = CounterKey(i)
                           /\ reads[i].value = CounterValue(eventsStats, i)
                           /\ CounterValue(eventsStats', i) = 0
                      ELSE CounterValue(eventsStats', i) = CounterValue(eventsStats, i)
                /\ eventsStats'.PerEventType[UnknownEventType]
                       = eventsStats.PerEventType[UnknownEventType]
                /\ call'.ret = NoError => Len(reads) = NCounters
                /\ (call.op = "SendStats" /\ call.ret = NoError) =>
                      \A i \in 1 .. Len(reads) :
                          /\ reads[i].value = 0
                          /\ i > 1 => ~reads[i].counted ]_vars

\* a SendStats that returned success has read every counter; one of them
\* held a positive count, which was handed to the metrics client, and is 0 now
C14_Witness ==
    /\ call.op = "SendStats"
    /\ call.ret = NoError
    /\ Len(call.invoked) = NCounters
    /\ \E i \in 1 .. NCounters :
          /\ call.invoked[i].value > 0
          /\ call.invoked[i].counted
          /\ call.invoked[i].ok
          /\ CounterValue(call.pre.eventsStats, i) = call.invoked[i].value
          /\ CounterValue(eventsStats, i) = 0

\* ------------------------------------------------------------------------
\* C15: GetStats leaves every counter unchanged; the map it returns holds
\* the current lost count and, under its type name, the current count of
\* every event type other than ordinal 0 and nothing else; two GetStats
\* calls with nothing in between return equal counts.
\* ------------------------------------------------------------------------
C15_GetStatsNonDestructive ==
    [][ IsCall("GetStats") =>
            LET out == call'.out
            IN  /\ UNCHANGED eventsStats
                /\ out.events.lost = eventsStats.Lost
                /\ DOMAIN out.per_event_type = EventTypeNames
                /\ \A t \in SupportedTypes :
                      out.per_event_type[EventTypeString(t)]
                          = eventsStats.PerEventType[t]
                /\ call.op = "GetStats" =>
                      /\ out.events.lost = call.out.events.lost
                      /\ out.per_event_type = call.out.per_event_type ]_vars

\* GetStats after a mount event was counted reports it under "mount", and
\* the counters still hold what they held before the call
C15_Witness ==
    /\ call.op = "GetStats"
    /\ eventsStats.PerEventType[FileMountEventType] = 1
    /\ call.out.events.lost = 0
    /\ call.out.per_event_type["mount"] = 1
    /\ call.pre.eventsStats = eventsStats

\* ------------------------------------------------------------------------
\* C16: in sequential delivery every handleEvent call starts from the zero
\* event bound to the probe's resolvers, so the event that reaches the
\* dispatch, and every event handed to the consumer, has every variant
\* payload other than the one of its own tag equal to the zero value,
\* whatever the previous buffer left behind.
\* ------------------------------------------------------------------------
VariantFields == { Variant(t) : t \in SupportedTypes }

OtherVariantsZero(ev) ==
    /\ ev.resolvers = ProbeResolvers
    /\ \A v \in VariantFields :
          (ev.Type \notin SupportedTypes \/ v # Variant(ev.Type)) =>
              ev[v] = eventZero[v]

C16_ContainerResetEveryCall ==
    /\ \A c \in CPUs : pc[c] = "unmarshal" => event = NewEvent(ProbeResolvers)
    /\ \A c \in CPUs : pc[c] = "dispatch" => OtherVariantsZero(event)
    /\ \A i \in 1 .. Len(handled) : OtherVariantsZero(handled[i].event)

\* after a mount event was decoded and its entry inserted, an open event
\* has reached the dispatch with its own payload and a zero Mount payload
C16_Witness ==
    /\ pc[StreamCPU] = "dispatch"
    /\ ncalls = 2
    /\ mounts # <<>>
    /\ event.Type = FileOpenEventType
    /\ event.Open = 1
    /\ event.Mount = MountEventZero

\* ------------------------------------------------------------------------
\* C17: no count is dropped by the export path: for the lost counter and
\* for every event type, what the counter held before a SendStats call is
\* what it holds afterwards plus the value that call successfully handed to
\* the metrics client, also when a metrics call or the syscall monitor's
\* export fails and SendStats returns early.
\* ------------------------------------------------------------------------
\* the value of counter i that the reads of one SendStats handed over
Handed(reads, i) ==
    IF i <= Len(reads) /\ reads[i].counted /\ reads[i].ok
    THEN reads[i].value
    ELSE 0

C17_NoCountDroppedByExport ==
    [][ IsCall("SendStats") =>
            \A i \in 1 .. NCounters :
                CounterValue(eventsStats, i)
                    = CounterValue(eventsStats', i) + Handed(call'.invoked, i) ]_vars

\* ------------------------------------------------------------------------
\* C18: Init is idempotent on the discarder registry: after one or more
\* Init calls every event type holds the list it holds after a single call
\* (one function for "open", one for "unlink", none for the others), so
\* OnNewDiscarder invokes each function at most once per notification.
\* ------------------------------------------------------------------------
RegistryAfterOneInit ==
    [t \in EventTypeNames |->
        IF t \in DOMAIN allDiscarderFncs THEN << allDiscarderFncs[t] >> ELSE <<>>]

C18_InitIdempotentOnRegistry ==
    /\ ninit >= 1 => onDiscardersFncs = RegistryAfterOneInit
    /\ call.op = "OnNewDiscarder" => Len(call.invoked) <= 1

\* ------------------------------------------------------------------------
\* C20: between destructive reads the lost counter is monotonic: for every
\* 64-bit unsigned count the transport reports, handleLostEvents never
\* leaves the lost counter smaller than it found it.
\* ------------------------------------------------------------------------
C20_LostCounterMonotonic ==
    [][ IsCall("handleLostEvents") =>
            eventsStats'.Lost >= eventsStats.Lost ]_vars

\* ------------------------------------------------------------------------
\* C19: the registries are written at composition time only: once Init has
\* returned, no handleEvent, handleLostEvents, OnNewDiscarder,
\* ApplyApprovers, ApplyFilterPolicy, SendStats, GetStats, SetEventHandler
\* or Snapshot call (and no step of one) adds, removes or reorders a
\* registered discarder function.  The approver registry allApproversFncs
\* is written by the package's init only and no operation has a way to it.
\* ------------------------------------------------------------------------
C19_RegistryFrozenAfterInit ==
    [][ (ninit >= 1 /\ ninit' = ninit) => UNCHANGED onDiscardersFncs ]_vars

\* after Init, an event has been handled and a discarder notification has
\* invoked the registered function, and the registry is what Init left
C19_Witness ==
    /\ ninit = 1
    /\ ncalls = 2
    /\ call.op = "OnNewDiscarder"
    /\ Len(call.invoked) = 1
    /\ eventsStats.PerEventType[FileOpenEventType] = 1
    /\ onDiscardersFncs = RegistryAfterOneInit

====
